---------------------------- MODULE Spec2Model ----------------------------
(***************************************************************************)
(* mediathekviewweb: the Channel segment converter of the search-string    *)
(* compiler (selector matching and value-to-query conversion) and the      *)
(* filmlist manager module (periodic check for filmlists to import).       *)
(*                                                                         *)
(* Strings are sequences of one-character strings, so that prefixes, case  *)
(* and whitespace are computed and not assumed.                            *)
(***************************************************************************)
EXTENDS Integers, Sequences, FiniteSets, TLC

VARIABLES
  segment,   \* the segment handed to the converter: selector token and value text
  phase,     \* "idle", "tokenized" (segment not yet converted), "converted" (tryConvert returned)
  result,    \* what tryConvert returned for the segment
  calls,     \* the converter calls in flight: position, segment, builder reference, result
  heap,      \* the TextQueryBuilder objects, by reference
  now,       \* currentTimestamp()
  kv,        \* the key-value repository, scope 'filmlist-manager': key -> stored value
  repo,      \* the filmlist import repository: the saved imports, by id
  initialImports, \* how many imports the repository held when the manager was constructed
  queue,     \* the items put on the filmlist import queue, in order
  mpc,       \* where the manager's loop iteration is
  check,     \* the compareTime in progress: key, time read, the enumeration's remainder
  cancelled, \* cancellationToken.isSet
  stopped,   \* loopController.stop() has returned
  enqueuedFilmlistsCount, \* the metric's field
  whileOrder, \* the order in which AsyncEnumerable.while takes, tests and passes on
  hist       \* history of the loop: what the iterations ran, which check failed, the
             \* start of each check's last successful run

selVars == <<segment, phase, result>>
callVars == <<calls, heap>>
mgrVars == <<now, kv, repo, initialImports, queue, mpc, check, cancelled, stopped,
             enqueuedFilmlistsCount, whileOrder, hist>>
vars == <<segment, phase, result, calls, heap,
          now, kv, repo, initialImports, queue, mpc, check, cancelled, stopped,
          enqueuedFilmlistsCount, whileOrder, hist>>

(***************************************************************************)
(* Bounds of the model.                                                    *)
(***************************************************************************)
\* longest selector token enumerated over the whole selector alphabet
MaxShortLen == 2
\* longest text appended to a prefix of "channel" or "sender" ("channels", "c!")
MaxExtLen == 1
\* longest value text
MaxValueLen == 2
\* converter calls that can be in flight together
MaxCalls == 2
\* filmlist resources the provider knows
MaxResources == 2
\* longest enumeration the provider yields
MaxListLen == 2
\* how far the clock advances
MaxTicks == 1

(***************************************************************************)
(* Characters and strings.                                                 *)
(***************************************************************************)
Str_channel == <<"c", "h", "a", "n", "n", "e", "l">>
Str_sender == <<"s", "e", "n", "d", "e", "r">>
Str_bang == <<"!">>

\* the upper-case form of the letters of "channel" and "sender"
UpperOf(ch) ==
  CASE ch = "c" -> "C" [] ch = "h" -> "H" [] ch = "a" -> "A" [] ch = "n" -> "N"
    [] ch = "e" -> "E" [] ch = "l" -> "L" [] ch = "s" -> "S" [] ch = "d" -> "D"
    [] ch = "r" -> "R" [] OTHER -> ch

\* String.prototype.toLowerCase, on the characters of the model's alphabets
LowerOf(ch) ==
  CASE ch = "C" -> "c" [] ch = "H" -> "h" [] ch = "A" -> "a" [] ch = "N" -> "n"
    [] ch = "E" -> "e" [] ch = "L" -> "l" [] ch = "S" -> "s" [] ch = "D" -> "d"
    [] ch = "R" -> "r" [] OTHER -> ch

ToLower(s) == [i \in 1..Len(s) |-> LowerOf(s[i])]

\* every string over alphabet of length at most n
RECURSIVE StringsUpTo(_, _)
StringsUpTo(alphabet, n) ==
  IF n = 0 THEN {<<>>}
  ELSE LET shorter == StringsUpTo(alphabet, n - 1)
       IN  shorter \cup {Append(s, ch) : s \in shorter, ch \in alphabet}

\* every upper/lower-case spelling of the lower-case string s
RECURSIVE CaseVariants(_)
CaseVariants(s) ==
  IF s = <<>> THEN {<<>>}
  ELSE LET front == CaseVariants(SubSeq(s, 1, Len(s) - 1))
           last == s[Len(s)]
       IN  {Append(f, ch) : f \in front, ch \in {last, UpperOf(last)}}

NonEmptyPrefixes(s) == {SubSeq(s, 1, n) : n \in 1..Len(s)}

IsNonEmptyPrefixOf(t, s) == Len(t) >= 1 /\ Len(t) <= Len(s) /\ SubSeq(s, 1, Len(t)) = t

IsWhitespace(ch) == ch = " "

\* String.prototype.trim
RECURSIVE TrimStart(_)
TrimStart(s) ==
  IF s # <<>> /\ IsWhitespace(s[1]) THEN TrimStart(Tail(s)) ELSE s

RECURSIVE TrimEnd(_)
TrimEnd(s) ==
  IF s # <<>> /\ IsWhitespace(s[Len(s)]) THEN TrimEnd(SubSeq(s, 1, Len(s) - 1)) ELSE s

Trim(s) == TrimEnd(TrimStart(s))

(***************************************************************************)
(* The inputs: selector tokens and value texts.                            *)
(***************************************************************************)
SelectorAlphabet == {"c", "h", "s", "e", "!", "C", "x"}
ValueAlphabet == {"a", "b", " "}

ChannelPrefixes == NonEmptyPrefixes(Str_channel) \cup NonEmptyPrefixes(Str_sender)

SelectorTokens ==
  StringsUpTo(SelectorAlphabet, MaxShortLen)
    \cup {p \o x : p \in ChannelPrefixes, x \in StringsUpTo(SelectorAlphabet, MaxExtLen)}
    \cup {x \o p : p \in ChannelPrefixes \cup {Str_bang},
                   x \in StringsUpTo(SelectorAlphabet, MaxExtLen)}
    \cup UNION {CaseVariants(p) : p \in ChannelPrefixes}

ValueTexts == StringsUpTo(ValueAlphabet, MaxValueLen)

\* a segment "selector:value"; hasSelector is FALSE for a segment without separator
Segments ==
  [hasSelector : {TRUE}, selectorToken : SelectorTokens, valueText : ValueTexts]
    \cup [hasSelector : {FALSE}, selectorToken : {<<>>}, valueText : ValueTexts]

(***************************************************************************)
(* SELECTOR_REGEX:                                                         *)
(*   /^(?:c(?:h(?:a(?:n(?:n(?:e(?:l)?)?)?)?)?)?                            *)
(*      |s(?:e(?:n(?:d(?:e(?:r)?)?)?)?)?|!)$/u                             *)
(* A group's match is the set of positions at which a match of the group   *)
(* that starts at position i of s can end.                                 *)
(***************************************************************************)
\* w1(?:w2(?:w3 ... )?)? : the first character of word, then optionally the rest
RECURSIVE NestedOptionalEnds(_, _, _)
NestedOptionalEnds(word, s, i) ==
  IF i <= Len(s) /\ s[i] = word[1]
  THEN {i + 1} \cup (IF Len(word) > 1 THEN NestedOptionalEnds(Tail(word), s, i + 1) ELSE {})
  ELSE {}

\* the single literal character "!"
LiteralEnds(ch, s, i) == IF i <= Len(s) /\ s[i] = ch THEN {i + 1} ELSE {}

\* (?: c... | s... | ! )
AlternationEnds(s, i) ==
  NestedOptionalEnds(Str_channel, s, i)
    \cup NestedOptionalEnds(Str_sender, s, i)
    \cup LiteralEnds("!", s, i)

\* the pattern without its $ anchor
SelectorRegexNoEndAnchor(s) == AlternationEnds(s, 1) # {}

\* the pattern with the outer group made optional: ^(?:...)?$
SelectorRegexOptionalGroup(s) == s = <<>> \/ (Len(s) + 1) \in AlternationEnds(s, 1)

\* the pattern without the |! alternative
SelectorRegexNoBareSymbol(s) ==
  (Len(s) + 1) \in (NestedOptionalEnds(Str_channel, s, 1)
                      \cup NestedOptionalEnds(Str_sender, s, 1))

\* the pattern with "channe(?:l)?" cut to "channe": the last optional group lost
SelectorRegexShortName(s) ==
  (Len(s) + 1) \in (NestedOptionalEnds(SubSeq(Str_channel, 1, 6), s, 1)
                      \cup NestedOptionalEnds(Str_sender, s, 1)
                      \cup LiteralEnds("!", s, 1))

\* SELECTOR_REGEX.test(s): anchored at both ends, no i flag
SELECTOR_REGEX(s) == (Len(s) + 1) \in AlternationEnds(s, 1)

(***************************************************************************)
(* Query AST and TextQueryBuilder.                                         *)
(***************************************************************************)
FIELD == "Channel"
Operator_And == "And"
Operator_Or == "Or"

NoQuery == [type |-> "None", fields |-> {}, text |-> <<>>, operator |-> "None"]
BuildError == [type |-> "Error", fields |-> {}, text |-> <<>>, operator |-> "None"]

\* new TextQueryBuilder(): nothing set yet
NewTextQueryBuilder ==
  [fields |-> {}, hasText |-> FALSE, text |-> <<>>, hasOperator |-> FALSE, operator |-> "None"]

BuilderFields(b, field) == [b EXCEPT !.fields = {field}]
BuilderText(b, text) == [b EXCEPT !.hasText = TRUE, !.text = text]
BuilderOperator(b, op) == [b EXCEPT !.hasOperator = TRUE, !.operator = op]

\* build(): the required parts must have been given
BuilderBuild(b) ==
  IF b.fields = {} \/ ~b.hasText \/ ~b.hasOperator
  THEN BuildError
  ELSE [type |-> "TextMatch", fields |-> b.fields, text |-> b.text, operator |-> b.operator]

(***************************************************************************)
(* ChannelSegmentConverter.                                                *)
(***************************************************************************)
\* a mutant of textToQuery: the words of the value joined by Or
textToQueryOr(text) ==
  BuilderBuild(BuilderOperator(BuilderText(BuilderFields(NewTextQueryBuilder, FIELD), text),
                               Operator_Or))

\* textToQuery(text): builder.fields(FIELD).text(text).operator(Operator.And).build()
textToQuery(text) ==
  BuilderBuild(BuilderOperator(BuilderText(BuilderFields(NewTextQueryBuilder, FIELD), text),
                               Operator_And))

\* SelectorSegmentConverterBase: the segment is claimed when it has a selector and
\* the converter's selector regex matches it
canHandleSelector(seg) == seg.hasSelector /\ SELECTOR_REGEX(seg.selectorToken)

\* SelectorSegmentConverterBase.tryConvert: the query of a claimed segment
tryConvert(seg) ==
  IF canHandleSelector(seg)
  THEN [claimed |-> TRUE, query |-> textToQuery(seg.valueText)]
  ELSE [claimed |-> FALSE, query |-> NoQuery]

NoResult == [claimed |-> FALSE, query |-> NoQuery]

(***************************************************************************)
(* Spec: one converter call after the other, each on a tokenized segment.  *)
(***************************************************************************)
NoSegment == [hasSelector |-> FALSE, selectorToken |-> <<>>, valueText |-> <<>>]

CallIds == 1..MaxCalls
NoRef == 0
IdleCall == [pc |-> "idle", seg |-> NoSegment, ref |-> NoRef, result |-> NoResult]

\* no converter call in flight, no builder allocated
CallsIdle ==
  /\ calls = [p \in CallIds |-> IdleCall]
  /\ heap = [r \in CallIds |-> [allocated |-> FALSE, builder |-> NewTextQueryBuilder]]

\* the configured intervals and archive range, in units of the latest-check interval
\* (the configuration values themselves are not part of the module)
LATEST_CHECK_INTERVAL == 1
ARCHIVE_CHECK_INTERVAL == 2
MAX_AGE_MILLISECONDS == 3

\* the clock when the manager is constructed: later than any interval after the epoch
StartTime == ARCHIVE_CHECK_INTERVAL + MAX_AGE_MILLISECONDS
MaxTime == StartTime + MaxTicks

NoFilmlist == [resource |-> [id |-> 0, timestamp |-> 0]]
NoCheck == [key |-> "none", now |-> 0, minimumTimestamp |-> 0, filmlists |-> <<>>,
            filmlist |-> NoFilmlist, filmlistImportId |-> 0]

\* private enqueuedFilmlistsCount: number, declared without initializer and not
\* assigned by the constructor
CountUndefined == [kind |-> "undefined", n |-> 0]
CountNaN == [kind |-> "NaN", n |-> 0]

\* no iteration of the loop has started
NoHistory == [kept |-> FALSE, ordinal |-> "none", fresh |-> FALSE, ran |-> {},
              failed |-> "none", failedBefore |-> "none", lastOk |-> <<>>]

\* the history as an action leaves it; it is kept only where a property needs it
Keep(h) == IF hist.kept THEN h ELSE hist

\* a manager that was never run, on an empty repository
ManagerOff ==
  /\ now = StartTime
  /\ kv = <<>>
  /\ repo = <<>>
  /\ initialImports = 0
  /\ queue = <<>>
  /\ mpc = "idle"
  /\ check = NoCheck
  /\ cancelled = FALSE
  /\ stopped = FALSE
  /\ enqueuedFilmlistsCount = CountUndefined
  /\ whileOrder = "takeTestPass"
  /\ hist = NoHistory

Init ==
  /\ segment = NoSegment
  /\ phase = "idle"
  /\ result = NoResult
  /\ CallsIdle
  /\ ManagerOff

\* the tokenizer delivers the next segment of the input
Tokenize ==
  /\ phase = "idle"
  /\ segment' \in Segments
  /\ phase' = "tokenized"
  /\ UNCHANGED <<result, callVars, mgrVars>>

\* the compiler hands the segment to the Channel converter
TryConvert ==
  /\ phase = "tokenized"
  /\ result' = tryConvert(segment)
  /\ phase' = "converted"
  /\ UNCHANGED <<segment, callVars, mgrVars>>

\* the compiler has taken the result; the segment is dropped
Return ==
  /\ phase = "converted"
  /\ segment' = NoSegment
  /\ phase' = "idle"
  /\ result' = NoResult
  /\ UNCHANGED <<callVars, mgrVars>>

Next == Tokenize \/ TryConvert \/ Return

Spec == Init /\ [][Next]_vars

(***************************************************************************)
(* SpecCalls: several tryConvert calls in flight, each advancing one       *)
(* statement of textToQuery at a time, in any interleaving.                *)
(***************************************************************************)
CallSelectors == {<<"c">>, Str_channel, Str_sender, Str_bang, <<"x">>}
CallValueTexts == {<<"a">>, <<"b">>}
CallSegments ==
  [hasSelector : {TRUE}, selectorToken : CallSelectors, valueText : CallValueTexts]

\* a mutant of NewBuilderRef: one builder object shared by all calls
SharedBuilderRef(h) == 1

\* new TextQueryBuilder(): a reference to an object no call holds
NewBuilderRef(h) == CHOOSE r \in DOMAIN h : ~h[r].allocated /\ \A q \in DOMAIN h : q < r => h[q].allocated

InitCalls ==
  /\ segment = NoSegment
  /\ phase = "idle"
  /\ result = NoResult
  /\ CallsIdle
  /\ ManagerOff

\* tryConvert(segment) is called
CallTryConvert(p) ==
  /\ calls[p].pc = "idle"
  /\ \E seg \in CallSegments :
       calls' = [calls EXCEPT ![p] = [@ EXCEPT !.pc = "canHandle", !.seg = seg]]
  /\ UNCHANGED <<heap, selVars, mgrVars>>

\* the selector test: an unclaimed segment returns at once
CallCanHandle(p) ==
  /\ calls[p].pc = "canHandle"
  /\ calls' = [calls EXCEPT ![p] =
                 IF canHandleSelector(@.seg)
                 THEN [@ EXCEPT !.pc = "new"]
                 ELSE [@ EXCEPT !.pc = "done", !.result = [claimed |-> FALSE, query |-> NoQuery]]]
  /\ UNCHANGED <<heap, selVars, mgrVars>>

\* const builder = new TextQueryBuilder()
CallNewBuilder(p) ==
  /\ calls[p].pc = "new"
  /\ LET r == NewBuilderRef(heap)
     IN  /\ heap' = [heap EXCEPT ![r] = [allocated |-> TRUE, builder |-> NewTextQueryBuilder]]
         /\ calls' = [calls EXCEPT ![p] = [@ EXCEPT !.pc = "fields", !.ref = r]]
  /\ UNCHANGED <<selVars, mgrVars>>

\* builder.fields(FIELD)
CallFields(p) ==
  /\ calls[p].pc = "fields"
  /\ heap' = [heap EXCEPT ![calls[p].ref].builder = BuilderFields(@, FIELD)]
  /\ calls' = [calls EXCEPT ![p].pc = "text"]
  /\ UNCHANGED <<selVars, mgrVars>>

\* .text(text)
CallText(p) ==
  /\ calls[p].pc = "text"
  /\ heap' = [heap EXCEPT ![calls[p].ref].builder = BuilderText(@, calls[p].seg.valueText)]
  /\ calls' = [calls EXCEPT ![p].pc = "operator"]
  /\ UNCHANGED <<selVars, mgrVars>>

\* .operator(Operator.And)
CallOperator(p) ==
  /\ calls[p].pc = "operator"
  /\ heap' = [heap EXCEPT ![calls[p].ref].builder = BuilderOperator(@, Operator_And)]
  /\ calls' = [calls EXCEPT ![p].pc = "build"]
  /\ UNCHANGED <<selVars, mgrVars>>

\* .build(); return query
CallBuild(p) ==
  /\ calls[p].pc = "build"
  /\ calls' = [calls EXCEPT ![p] =
                 [@ EXCEPT !.pc = "done",
                           !.result = [claimed |-> TRUE,
                                       query |-> BuilderBuild(heap[calls[p].ref].builder)]]]
  /\ UNCHANGED <<heap, selVars, mgrVars>>

\* the caller has taken the result; the call's builder is garbage
CallReturn(p) ==
  /\ calls[p].pc = "done"
  /\ calls' = [calls EXCEPT ![p] = IdleCall]
  /\ heap' = IF calls[p].ref = NoRef THEN heap
             ELSE [heap EXCEPT ![calls[p].ref] =
                     [allocated |-> FALSE, builder |-> NewTextQueryBuilder]]
  /\ UNCHANGED <<selVars, mgrVars>>

NextCalls ==
  \E p \in CallIds :
    \/ CallTryConvert(p)
    \/ CallCanHandle(p)
    \/ CallNewBuilder(p)
    \/ CallFields(p)
    \/ CallText(p)
    \/ CallOperator(p)
    \/ CallBuild(p)
    \/ CallReturn(p)

SpecCalls == InitCalls /\ [][NextCalls]_vars

(***************************************************************************)
(* SpecManager: FilmlistManagerModule.  The distributed loop runs check()  *)
(* again and again; check() is advanced from one await to the next, and    *)
(* the clock, the cancellation token and failures of the repository and    *)
(* the queue come in between.  Time is in units of the check intervals.    *)
(***************************************************************************)
ResourceIds == 1..MaxResources

\* a filmlist of the provider; a resource with a higher id is a newer one
Filmlist(id) == [resource |-> [id |-> id, timestamp |-> 2 * id]]

\* what filmlistProvider.getLatest() / getArchive() may yield: any enumeration,
\* the same resource more than once included
ProviderLists ==
  UNION {[1..n -> {Filmlist(id) : id \in ResourceIds}] : n \in 0..MaxListLen}

\* the most imports the repository takes
MaxImports == MaxResources + 2

\* keyValueRepository.get(KEY_VALUE_SCOPE, key, defaultValue)
KvGet(key, defaultValue) == IF key \in DOMAIN kv THEN kv[key] ELSE defaultValue

\* keyValueRepository.set(KEY_VALUE_SCOPE, key, value)
KvSet(key, value) == [k \in DOMAIN kv \cup {key} |-> IF k = key THEN value ELSE kv[k]]

\* filmlistImportRepository.hasResource(resourceId)
hasResource(resourceId) == \E i \in 1..Len(repo) : repo[i].resource.id = resourceId

\* the filters without the hasResource filter
PassesTimestampFilterOnly(filmlist, minimumTimestamp) ==
  filmlist.resource.timestamp >= minimumTimestamp

\* the two filters of enqueueMissingFilmlists
PassesFilters(filmlist, minimumTimestamp) ==
  /\ filmlist.resource.timestamp >= minimumTimestamp
  /\ ~hasResource(filmlist.resource.id)

\* this.enqueuedFilmlistsCount++
Increment(count) ==
  IF count.kind = "number" THEN [kind |-> "number", n |-> count.n + 1] ELSE CountNaN

\* the imports a repository may hold when the manager is constructed: at most one
\* per resource
InitialRepos ==
  {<<>>} \cup
  { [i \in 1..1 |-> [id |-> i, resource |-> Filmlist(r).resource, state |-> "pending"]]
      : r \in ResourceIds }

\* AsyncEnumerable.while is library code: for each item it either awaits the
\* provider's next item, tests the predicate and passes the item on; or tests the
\* predicate, awaits the next item and passes it on; or awaits the next item, passes
\* it on and tests the predicate when the item after it is asked for
WhileOrders == {"takeTestPass", "testTakePass", "takePassTest"}

\* .while(() => !this.cancellationToken.isSet)
whileNotCancelled == ~cancelled

\* what is left of the provider's enumeration: nothing once the enumeration is over
remaining(next, filmlists) == IF next = "set" THEN <<>> ELSE filmlists

\* forEach asks for the next filmlist, the first of the enumeration or a later one:
\* where the predicate is tested on the request and fails, the enumeration is over
\* and forEach returns; otherwise the provider's next item is awaited
requestNext(first) ==
  IF /\ \/ whileOrder = "testTakePass"
        \/ whileOrder = "takePassTest" /\ ~first
     /\ ~whileNotCancelled
  THEN "set"
  ELSE "enumerate"

InitManager ==
  /\ segment = NoSegment
  /\ phase = "idle"
  /\ result = NoResult
  /\ CallsIdle
  /\ now = StartTime
  /\ kv = <<>>
  /\ repo \in InitialRepos
  /\ initialImports = Len(repo)
  /\ queue = <<>>
  /\ mpc = "idle"
  /\ check = NoCheck
  /\ cancelled = FALSE
  /\ stopped = FALSE
  /\ enqueuedFilmlistsCount = CountUndefined
  /\ whileOrder \in WhileOrders
  /\ hist = NoHistory

\* compareTime(key, interval, func) up to the start of func's enumeration
compareTime(key, interval, minimumTimestamp, skipTo) ==
  LET lastCheck == KvGet(key, 0)
      difference == now - lastCheck
  IN  IF difference >= interval
      THEN /\ \E filmlists \in ProviderLists :
                check' = [key |-> key, now |-> now, minimumTimestamp |-> minimumTimestamp,
                          filmlists |-> remaining(requestNext(TRUE), filmlists),
                          filmlist |-> NoFilmlist, filmlistImportId |-> 0]
           /\ mpc' = requestNext(TRUE)
      ELSE /\ check' = NoCheck
           /\ mpc' = skipTo

\* _run: the distributed loop calls check() for another iteration, unless it was
\* stopped; check() calls compareTime for the latest check, which awaits
\* keyValueRepository.get(KEY_VALUE_SCOPE, 'lastLatestCheck', 0)
StartIteration ==
  /\ mpc = "idle"
  /\ ~stopped
  /\ mpc' = "compareLatest"
  /\ hist' = Keep([hist EXCEPT !.ordinal = IF @ = "none" THEN "first" ELSE "later",
                          !.fresh = (kv = <<>>),
                          !.failedBefore = hist.failed,
                          !.failed = "none",
                          !.ran = {}])
  /\ UNCHANGED <<whileOrder, now, kv, repo, initialImports, queue, check, cancelled,
                 stopped, enqueuedFilmlistsCount, selVars, callVars>>

\* check(), first line: compareTime for the latest check, from the stored value on
CheckLatest ==
  /\ mpc = "compareLatest"
  /\ compareTime("lastLatestCheck", LATEST_CHECK_INTERVAL, 0, "compareArchive")
  /\ hist' = Keep([hist EXCEPT !.ran = IF mpc' # "compareArchive"
                                  THEN @ \cup {"lastLatestCheck"} ELSE @])
  /\ UNCHANGED <<whileOrder, now, kv, repo, initialImports, queue, cancelled, stopped,
                 enqueuedFilmlistsCount, selVars, callVars>>

\* keyValueRepository.get rejects: compareTime and check() reject, the iteration is
\* over and no check was run
KvGetFails ==
  /\ mpc \in {"compareLatest", "compareArchive"}
  /\ mpc' = "idle"
  /\ check' = NoCheck
  /\ UNCHANGED <<whileOrder, now, kv, repo, initialImports, queue, cancelled, stopped,
                 enqueuedFilmlistsCount, hist, selVars, callVars>>

\* check(), second line: the archive check, from now - MAX_AGE_MILLISECONDS
CheckArchive ==
  /\ mpc = "compareArchive"
  /\ compareTime("lastArchiveCheck", ARCHIVE_CHECK_INTERVAL, now - MAX_AGE_MILLISECONDS, "idle")
  /\ hist' = Keep([hist EXCEPT !.ran = IF mpc' # "idle"
                                  THEN @ \cup {"lastArchiveCheck"} ELSE @])
  /\ UNCHANGED <<whileOrder, now, kv, repo, initialImports, queue, cancelled, stopped,
                 enqueuedFilmlistsCount, selVars, callVars>>

\* the provider's next item arrives, or the provider is at its end and forEach
\* returns; an item is passed on to the filters, unless the predicate is tested on
\* arrival and fails, which ends the enumeration
EnumerateNext ==
  /\ mpc = "enumerate"
  /\ IF \/ check.filmlists = <<>>
        \/ whileOrder = "takeTestPass" /\ ~whileNotCancelled
     THEN /\ mpc' = "set"
          /\ check' = [check EXCEPT !.filmlists = remaining("set", @)]
     ELSE /\ check' = [check EXCEPT !.filmlists = Tail(@),
                                    !.filmlist = Head(check.filmlists)]
          /\ mpc' = "filter"
  /\ UNCHANGED <<whileOrder, now, kv, repo, initialImports, queue, cancelled, stopped,
                 enqueuedFilmlistsCount, hist, selVars, callVars>>

\* the two filters on the filmlist taken, the second one awaiting hasResource; a
\* filmlist that passes goes to enqueueFilmlist
FilterNext ==
  /\ mpc = "filter"
  /\ IF PassesFilters(check.filmlist, check.minimumTimestamp)
     THEN /\ mpc' = "save"
          /\ UNCHANGED check
     ELSE /\ mpc' = requestNext(FALSE)
          /\ check' = [check EXCEPT !.filmlist = NoFilmlist,
                                    !.filmlists = remaining(requestNext(FALSE), @)]
  /\ UNCHANGED <<whileOrder, now, kv, repo, initialImports, queue, cancelled, stopped,
                 enqueuedFilmlistsCount, hist, selVars, callVars>>

\* the provider's enumeration throws: the check function and check() reject
NextFails ==
  /\ mpc = "enumerate"
  /\ mpc' = "idle"
  /\ check' = NoCheck
  /\ hist' = Keep([hist EXCEPT !.failed = check.key])
  /\ UNCHANGED <<whileOrder, now, kv, repo, initialImports, queue, cancelled, stopped,
                 enqueuedFilmlistsCount, selVars, callVars>>

\* filmlistImportRepository.hasResource rejects, for a filmlist that passed the
\* timestamp filter: the check function and check() reject
HasResourceFails ==
  /\ mpc = "filter"
  /\ check.filmlist.resource.timestamp >= check.minimumTimestamp
  /\ mpc' = "idle"
  /\ check' = NoCheck
  /\ hist' = Keep([hist EXCEPT !.failed = check.key])
  /\ UNCHANGED <<whileOrder, now, kv, repo, initialImports, queue, cancelled, stopped,
                 enqueuedFilmlistsCount, selVars, callVars>>

\* enqueueFilmlist: filmlistImportRepository.save(filmlistImport) returns the insert
Save ==
  /\ mpc = "save"
  /\ Len(repo) < MaxImports
  /\ LET id == Len(repo) + 1
     IN  /\ repo' = Append(repo, [id |-> id, resource |-> check.filmlist.resource,
                                  state |-> "pending"])
         /\ check' = [check EXCEPT !.filmlistImportId = id]
  /\ mpc' = "enqueue"
  /\ UNCHANGED <<whileOrder, now, kv, initialImports, queue, cancelled, stopped,
                 enqueuedFilmlistsCount, hist, selVars, callVars>>

\* save throws: check() rejects, the iteration is over
SaveFails ==
  /\ mpc = "save"
  /\ mpc' = "idle"
  /\ check' = NoCheck
  /\ hist' = Keep([hist EXCEPT !.failed = check.key])
  /\ UNCHANGED <<whileOrder, now, kv, repo, initialImports, queue, cancelled, stopped,
                 enqueuedFilmlistsCount, selVars, callVars>>

\* enqueueFilmlist: await filmlistImportQueue.enqueue(item), the queue has the item
Enqueue ==
  /\ mpc = "enqueue"
  /\ queue' = Append(queue, [filmlistImportId |-> check.filmlistImportId])
  /\ mpc' = "increment"
  /\ UNCHANGED <<whileOrder, now, kv, repo, initialImports, check, cancelled, stopped,
                 enqueuedFilmlistsCount, hist, selVars, callVars>>

\* enqueueFilmlist, after the await has returned: this.enqueuedFilmlistsCount++; the
\* call is over and forEach asks for the next filmlist
IncrementCount ==
  /\ mpc = "increment"
  /\ enqueuedFilmlistsCount' = Increment(enqueuedFilmlistsCount)
  /\ check' = [check EXCEPT !.filmlist = NoFilmlist, !.filmlistImportId = 0,
                            !.filmlists = remaining(requestNext(FALSE), @)]
  /\ mpc' = requestNext(FALSE)
  /\ UNCHANGED <<whileOrder, now, kv, repo, initialImports, queue, cancelled, stopped, hist,
                 selVars, callVars>>

\* enqueue throws: check() rejects, the iteration is over
EnqueueFails ==
  /\ mpc = "enqueue"
  /\ mpc' = "idle"
  /\ check' = NoCheck
  /\ hist' = Keep([hist EXCEPT !.failed = check.key])
  /\ UNCHANGED <<whileOrder, now, kv, repo, initialImports, queue, cancelled, stopped,
                 enqueuedFilmlistsCount, selVars, callVars>>

\* compareTime, after func: keyValueRepository.set(KEY_VALUE_SCOPE, key, now)
SetLastCheck ==
  /\ mpc = "set"
  /\ kv' = KvSet(check.key, check.now)
  /\ mpc' = IF check.key = "lastLatestCheck" THEN "compareArchive" ELSE "idle"
  /\ check' = NoCheck
  /\ hist' = Keep([hist EXCEPT !.lastOk = [k \in DOMAIN hist.lastOk \cup {check.key} |->
                                             IF k = check.key THEN check.now
                                             ELSE hist.lastOk[k]]])
  /\ UNCHANGED <<whileOrder, now, repo, initialImports, queue, cancelled, stopped,
                 enqueuedFilmlistsCount, selVars, callVars>>

\* keyValueRepository.set rejects after func completed: the timestamp is not
\* written, compareTime and check() reject
SetLastCheckFails ==
  /\ mpc = "set"
  /\ mpc' = "idle"
  /\ check' = NoCheck
  /\ hist' = Keep([hist EXCEPT !.lastOk = [k \in DOMAIN hist.lastOk \cup {check.key} |->
                                             IF k = check.key THEN check.now
                                             ELSE hist.lastOk[k]]])
  /\ UNCHANGED <<whileOrder, now, kv, repo, initialImports, queue, cancelled, stopped,
                 enqueuedFilmlistsCount, selVars, callVars>>

\* the module is stopped: the cancellation token is set
Cancel ==
  /\ ~cancelled
  /\ cancelled' = TRUE
  /\ UNCHANGED <<whileOrder, now, kv, repo, initialImports, queue, mpc, check, stopped,
                 enqueuedFilmlistsCount, hist, selVars, callVars>>

\* _run: after await this.cancellationToken, loopController.stop() returns; the loop
\* controller is library code, and stop() may return while an iteration is still
\* running, which then goes on to its end; no iteration starts afterwards
StopLoop ==
  /\ cancelled
  /\ ~stopped
  /\ stopped' = TRUE
  /\ UNCHANGED <<whileOrder, now, kv, repo, initialImports, queue, mpc, check, cancelled,
                 enqueuedFilmlistsCount, hist, selVars, callVars>>

\* time passes
Tick ==
  /\ now < MaxTime
  /\ now' = now + 1
  /\ UNCHANGED <<whileOrder, kv, repo, initialImports, queue, mpc, check, cancelled, stopped,
                 enqueuedFilmlistsCount, hist, selVars, callVars>>

NextManager ==
  \/ StartIteration
  \/ CheckLatest
  \/ KvGetFails
  \/ NextFails
  \/ HasResourceFails
  \/ SetLastCheckFails
  \/ CheckArchive
  \/ EnumerateNext
  \/ FilterNext
  \/ Save
  \/ SaveFails
  \/ Enqueue
  \/ IncrementCount
  \/ EnqueueFails
  \/ SetLastCheck
  \/ Cancel
  \/ StopLoop
  \/ Tick

SpecManager == InitManager /\ [][NextManager]_vars

\* the manager with the history of its loop kept
InitManagerHistory ==
  /\ segment = NoSegment
  /\ phase = "idle"
  /\ result = NoResult
  /\ CallsIdle
  /\ now = StartTime
  /\ kv = <<>>
  /\ repo \in InitialRepos
  /\ initialImports = Len(repo)
  /\ queue = <<>>
  /\ mpc = "idle"
  /\ check = NoCheck
  /\ cancelled = FALSE
  /\ stopped = FALSE
  /\ enqueuedFilmlistsCount = CountUndefined
  /\ whileOrder \in WhileOrders
  /\ hist = [NoHistory EXCEPT !.kept = TRUE]

SpecManagerHistory == InitManagerHistory /\ [][NextManager]_vars

(***************************************************************************)
(* Properties of the selector rule and of the conversion (under Spec).     *)
(***************************************************************************)
Converted == phase = "converted"

\* C1: every non-empty prefix of "channel" and every non-empty prefix of "sender",
\* given as the selector token of a segment, is matched by the Channel selector rule.
C1_PrefixCompleteness ==
  (Converted /\ segment.hasSelector
     /\ (IsNonEmptyPrefixOf(segment.selectorToken, Str_channel)
           \/ IsNonEmptyPrefixOf(segment.selectorToken, Str_sender)))
    => result.claimed

C1_Witness ==
  Converted /\ segment.hasSelector /\ segment.selectorToken = Str_channel /\ result.claimed

\* C2: matching is case-insensitive: a selector token that differs only in case from a
\* token the Channel selector matches is matched as well.
C2_CaseInsensitive ==
  (Converted /\ segment.hasSelector
     /\ \E u \in SelectorTokens :
          SELECTOR_REGEX(u) /\ ToLower(u) = ToLower(segment.selectorToken))
    => result.claimed

\* C3: the Channel selector matches a token only if it is a non-empty prefix of
\* "channel", a non-empty prefix of "sender", or exactly "!".
C3_MatchesOnlyRule ==
  (Converted /\ result.claimed)
    => /\ segment.hasSelector
       /\ \/ IsNonEmptyPrefixOf(segment.selectorToken, Str_channel)
          \/ IsNonEmptyPrefixOf(segment.selectorToken, Str_sender)
          \/ segment.selectorToken = Str_bang

C3_Witness ==
  Converted /\ segment.hasSelector /\ ~result.claimed
    /\ segment.selectorToken = Str_channel \o <<"s">>

\* C4: a segment whose selector token is the empty string is never claimed by the
\* Channel converter.
C4_EmptyNeverMatches ==
  (Converted /\ segment.selectorToken = <<>>) => ~result.claimed

C4_Witness ==
  Converted /\ segment.hasSelector /\ segment.selectorToken = <<>> /\ ~result.claimed

\* C5: the conversion of a claimed segment builds a TextMatch node whose field set is
\* exactly {Channel}, whose text is the segment's value text unchanged and whose
\* operator is And.
C5_ConvertBuildsTextMatch ==
  (Converted /\ result.claimed)
    => result.query = [type |-> "TextMatch", fields |-> {"Channel"},
                       text |-> segment.valueText, operator |-> "And"]

C5_Witness ==
  Converted /\ result.claimed /\ segment.valueText = <<"a", " ">>
    /\ result.query.type = "TextMatch"

\* C6: every TextMatch node the Channel converter produces has a non-empty field set
\* and a text that is non-empty after trimming.
C6_TextMatchInvariant ==
  (Converted /\ result.query.type = "TextMatch")
    => (result.query.fields # {} /\ Trim(result.query.text) # <<>>)

(***************************************************************************)
(* Properties of interleaved converter calls (under SpecCalls).            *)
(***************************************************************************)
CallDone(p) == calls[p].pc = "done"

ChannelForms == {<<"c">>, Str_channel, Str_sender, Str_bang}

\* C7: segments that differ only in the selector form (c, channel, sender, !) and
\* carry the same value are all claimed by the Channel converter and yield
\* structurally identical TextMatch nodes.
C7_SelectorFormIndependence ==
  \A p, q \in CallIds :
    (CallDone(p) /\ CallDone(q)
       /\ calls[p].seg.selectorToken \in ChannelForms
       /\ calls[q].seg.selectorToken \in ChannelForms
       /\ calls[p].seg.valueText = calls[q].seg.valueText)
      => /\ calls[p].result.claimed /\ calls[q].result.claimed
         /\ calls[p].result.query.type = "TextMatch"
         /\ calls[p].result.query = calls[q].result.query

C7_Witness ==
  \E p, q \in CallIds :
    /\ CallDone(p) /\ CallDone(q)
    /\ calls[p].seg.selectorToken = Str_bang
    /\ calls[q].seg.selectorToken = Str_sender
    /\ calls[p].seg.valueText = calls[q].seg.valueText
    /\ calls[p].result.claimed
    /\ calls[p].result.query = calls[q].result.query

\* C8: every call yields the node it yields when run alone, whatever other calls
\* run interleaved with it, and two calls with the same value text yield
\* structurally identical nodes.
C8_NoSharedState ==
  /\ \A p \in CallIds : CallDone(p) => calls[p].result = tryConvert(calls[p].seg)
  /\ \A p, q \in CallIds :
       (CallDone(p) /\ CallDone(q) /\ calls[p].result.claimed /\ calls[q].result.claimed
          /\ calls[p].seg.valueText = calls[q].seg.valueText)
         => calls[p].result.query = calls[q].result.query

\* call q took its builder first and is still building while call p, which took
\* its builder later, is done: p ran inside q, with another value text
C8_Witness ==
  \E p, q \in CallIds :
    /\ CallDone(p) /\ calls[p].result.claimed
    /\ calls[q].pc = "build"
    /\ calls[q].ref < calls[p].ref
    /\ calls[p].seg.valueText # calls[q].seg.valueText
    /\ calls[p].result.query.text = calls[p].seg.valueText

(***************************************************************************)
(* Properties of the filmlist manager (under SpecManager).                 *)
(***************************************************************************)
ImportsOf(resourceId) == {i \in 1..Len(repo) : repo[i].resource.id = resourceId}

QueueItemsOf(resourceId) ==
  {j \in 1..Len(queue) : repo[queue[j].filmlistImportId].resource.id = resourceId}

\* C10: a filmlist resource id is saved to the import repository at most once and put
\* on the import queue at most once, and a filmlist whose resource id the repository
\* already had is neither saved again nor enqueued.
C10_AtMostOnceEnqueue ==
  /\ \A r \in ResourceIds :
       /\ Cardinality(ImportsOf(r)) <= 1
       /\ Cardinality(QueueItemsOf(r)) <= 1
  /\ \A j \in 1..Len(queue) : queue[j].filmlistImportId > initialImports

\* the provider yields a resource again that this manager has saved and enqueued, and
\* another one that the repository held from the start
C10_Witness ==
  /\ mpc = "enumerate"
  /\ Len(check.filmlists) = 2
  /\ QueueItemsOf(check.filmlists[1].resource.id) # {}
  /\ initialImports = 1
  /\ check.filmlists[2].resource.id = repo[1].resource.id

\* the imports this manager saved
SavedByManager == (initialImports + 1)..Len(repo)

\* an enqueueFilmlist call is between its save and its enqueue
EnqueueFilmlistInProgress == mpc \in {"enqueue", "increment"}

HasQueueItem(importId) == \E j \in 1..Len(queue) : queue[j].filmlistImportId = importId

\* C11: whenever no enqueueFilmlist call is in progress, every import the manager saved
\* with state 'pending' has a queue item carrying its id.
C11_NoImportWithoutQueueItem ==
  ~EnqueueFilmlistInProgress
    => \A i \in SavedByManager : repo[i].state = "pending" => HasQueueItem(i)

\* C15: whenever the manager is not between the enqueue and the increment that follows
\* it, the enqueuedFilmlistsCount metric equals the number of filmlists this manager
\* has put on the import queue: 0 at first, one more after each enqueue.
C15_MetricCountsEnqueues ==
  mpc # "increment" => enqueuedFilmlistsCount = [kind |-> "number", n |-> Len(queue)]

\* the configured interval of a check, by its key
IntervalOf(key) ==
  IF key = "lastLatestCheck" THEN LATEST_CHECK_INTERVAL ELSE ARCHIVE_CHECK_INTERVAL

\* keyValueRepository.get(KEY_VALUE_SCOPE, key, 0) on the present store
StoredLastCheck(key) == IF key \in DOMAIN kv THEN kv[key] ELSE 0

\* where check() is while a check function runs or has just returned
InCheckFunction == {"enumerate", "filter", "save", "enqueue", "increment"}

\* a step in which the running check function throws: the provider, hasResource,
\* save or enqueue rejects
CheckFunctionFails == mpc \in InCheckFunction /\ mpc' = "idle"

\* a step with which a loop iteration is over
IterationEnds == mpc # "idle" /\ mpc' = "idle"

\* a step in which compareTime starts its check function
CheckStarts ==
  mpc \in {"compareLatest", "compareArchive"} /\ mpc' \in {"enumerate", "set"}

\* a step within one run of compareTime, from the start of its check function on
CheckGoesOn ==
  mpc \in InCheckFunction \cup {"set"} /\ mpc' \in InCheckFunction \cup {"set"}

\* the timestamp is written only when the check function has returned, and it is the
\* time read before the function started; a failing check leaves the store as it is
TimestampWrittenAfterSuccess ==
  /\ kv' # kv => /\ mpc = "set"
                 /\ kv' = [k \in DOMAIN kv \cup {check.key} |->
                             IF k = check.key THEN check.now ELSE kv[k]]
  /\ CheckStarts => check'.now = now
  /\ CheckGoesOn => (check'.now = check.now /\ check'.key = check.key)
  /\ CheckFunctionFails => kv' = kv

\* C12: the timestamp is written only after the check function completed, with the
\* time read before it started; a failed check leaves it unchanged, and the loop
\* iteration after the one in which a check function failed runs that check again.
C12_FailedCheckRunsNextIteration ==
  [][ /\ TimestampWrittenAfterSuccess
      /\ (IterationEnds /\ hist'.failedBefore # "none")
           => hist'.failedBefore \in hist'.ran ]_vars

\* each iteration runs the latest check exactly when, at its comparison, now minus the
\* stored timestamp (0 when none is stored) is at least the interval, and likewise
\* the archive check; an iteration that ends with the archive check due has run it
RunsExactlyWhenDue ==
  /\ (mpc = "compareLatest" /\ mpc' # "compareLatest")
       => ("lastLatestCheck" \in hist'.ran
             <=> now - StoredLastCheck("lastLatestCheck") >= LATEST_CHECK_INTERVAL)
  /\ (mpc = "compareArchive" /\ mpc' # "compareArchive")
       => ("lastArchiveCheck" \in hist'.ran
             <=> now - StoredLastCheck("lastArchiveCheck") >= ARCHIVE_CHECK_INTERVAL)
  /\ (IterationEnds /\ now - StoredLastCheck("lastArchiveCheck") >= ARCHIVE_CHECK_INTERVAL)
       => "lastArchiveCheck" \in hist'.ran

\* a run whose check function completed started at least the interval after the
\* start of the last run of the same check whose function completed
SuccessfulRunsSpaced ==
  (mpc = "set" /\ mpc' # "set" /\ check.key \in DOMAIN hist.lastOk)
    => check.now - hist.lastOk[check.key] >= IntervalOf(check.key)

\* C13: every iteration runs the latest (the archive) check exactly when it is due,
\* two completed runs of one check start at least the interval apart, and the very
\* first iteration with no stored timestamp runs both checks.
C13_MinimumSpacing ==
  [][ /\ RunsExactlyWhenDue
      /\ SuccessfulRunsSpaced
      /\ (IterationEnds /\ hist'.ordinal = "first" /\ hist'.fresh)
           => hist'.ran = {"lastLatestCheck", "lastArchiveCheck"} ]_vars

=============================================================================
